---------------------------- MODULE Spec2Model ----------------------------
(***************************************************************************)
(* Attribute support of microxml (mxml-attr.c): the attribute array of an *)
(* element node and the five public operations on it, with every          *)
(* allocation allowed to fail.                                             *)
(*                                                                         *)
(* A C string is a TLA+ string; the null pointer is the token NULL, which  *)
(* is no member of the name or value pools.  An element's attribute array  *)
(* is kept as the sequence of its live slots (index 1..num_attrs) together *)
(* with the physical capacity of the block node->value.element.attrs      *)
(* points to (cap = 0: the pointer is null).  Slots at or beyond num_attrs *)
(* hold indeterminate bytes and are never read by the code, so their       *)
(* content is not part of the state.                                       *)
(* The string blocks the slots point to, and which of them are allocated,  *)
(* are followed in heap.                                                   *)
(***************************************************************************)
EXTENDS Integers, Sequences, FiniteSets, TLC

\* ------------------------------------------------------------------ bounds
NumNames == 2
NumValues == 1

NamePool == <<"", "a", "b", "c", "d">>
ValuePool == <<"1", "x", "2", "y">>

NULL == "<NULL>"

Names == {NamePool[i] : i \in 1..NumNames}
Values == {ValuePool[i] : i \in 1..NumValues}
NameArgs == Names \cup {NULL}
ValueArgs == Values \cup {NULL}

\* ------------------------------------------------------------ node kinds
MXML_ELEMENT == "MXML_ELEMENT"
MXML_TEXT == "MXML_TEXT"

\* The nodes of the document and the node arguments a caller can pass.
Nodes == {"elem", "text"}
NodeArgs == Nodes \cup {NULL}

VARIABLES node, pre, last, heap

vars == <<node, pre, last, heap>>

\* A node as mxmlNewElement / mxmlNewText leave it (calloc'ed union).
NewNode(t) == [type |-> t, num_attrs |-> 0, attrs |-> <<>>, cap |-> 0]

\* What a call that has not run any step has done.
Nothing ==
  [ret |-> NULL, called |-> FALSE, rc |-> 0, reports |-> 0, allocs |-> 0,
   frees |-> 0, failed |-> {}, fault |-> FALSE, arrayCall |-> "none",
   abandoned |-> FALSE]

\* ------------------------------------------------------------ the scans
\* !strcmp(a, b) on two non-null strings.
StrEq(a, b) == a = b

\* Index of the first live slot named name, 0 when the loop runs out.
RECURSIVE ScanName(_, _, _)
ScanName(attrs, name, i) ==
  IF i > Len(attrs) THEN 0
  ELSE IF StrEq(attrs[i].name, name) THEN i
  ELSE ScanName(attrs, name, i + 1)

\* The loop bound one short: the last live slot is never compared.
FindAttr_SkipLast(nd, name) ==
  ScanName(SubSeq(nd.attrs, 1, nd.num_attrs - 1), name, 1)

FindAttr(nd, name) == ScanName(SubSeq(nd.attrs, 1, nd.num_attrs), name, 1)


\* --------------------------------------------------- mxmlElementDeleteAttr
\* memmove(attr, attr + 1, i * sizeof(mxml_attr_t)) at slot k, seen on the
\* live slots that remain once num_attrs is decremented.
\* The shift left out: the count drops but every slot stays where it was.
Memmove_None(attrs, k) == [j \in 1..(Len(attrs) - 1) |-> attrs[j]]

Memmove(attrs, k) ==
  [j \in 1..(Len(attrs) - 1) |-> IF j < k THEN attrs[j] ELSE attrs[j + 1]]

\* The decrement placed after the loop: it also runs when no slot matched.
mxmlElementDeleteAttr_Always(nodes, n, name) ==
  IF n = NULL \/ nodes[n].type # MXML_ELEMENT \/ name = NULL
  THEN [nodes |-> nodes, out |-> Nothing]
  ELSE LET nd == nodes[n]
           k == FindAttr(nd, name)
       IN IF k = 0
          THEN [nodes |-> [nodes EXCEPT ![n] =
                             [nd EXCEPT
                                !.attrs = SubSeq(nd.attrs, 1, nd.num_attrs - 1),
                                !.num_attrs = IF nd.num_attrs > 0
                                              THEN nd.num_attrs - 1 ELSE 0]],
                out |-> Nothing]
          ELSE [nodes |-> [nodes EXCEPT ![n] =
                             [nd EXCEPT !.attrs = Memmove(nd.attrs, k),
                                        !.num_attrs = nd.num_attrs - 1]],
                out |-> [Nothing EXCEPT !.frees =
                           IF nd.attrs[k].value = NULL THEN 1 ELSE 2]]

mxmlElementDeleteAttr(nodes, n, name) ==
  IF n = NULL \/ nodes[n].type # MXML_ELEMENT \/ name = NULL
  THEN [nodes |-> nodes, out |-> Nothing]
  ELSE LET nd == nodes[n]
           k == FindAttr(nd, name)
       IN IF k = 0
          THEN [nodes |-> nodes, out |-> Nothing]
          ELSE [nodes |-> [nodes EXCEPT ![n] =
                             [nd EXCEPT !.attrs = Memmove(nd.attrs, k),
                                        !.num_attrs = nd.num_attrs - 1]],
                out |-> [Nothing EXCEPT !.frees =
                           IF nd.attrs[k].value = NULL THEN 1 ELSE 2]]

\* ------------------------------------------------- mxmlElementGetAttrValue
\* The matching slot's name returned in place of its value.
mxmlElementGetAttrValue_Name(nodes, n, name) ==
  IF n = NULL \/ nodes[n].type # MXML_ELEMENT \/ name = NULL
  THEN NULL
  ELSE LET k == FindAttr(nodes[n], name)
       IN IF k = 0 THEN NULL ELSE nodes[n].attrs[k].name

mxmlElementGetAttrValue(nodes, n, name) ==
  IF n = NULL \/ nodes[n].type # MXML_ELEMENT \/ name = NULL
  THEN NULL
  ELSE LET k == FindAttr(nodes[n], name)
       IN IF k = 0 THEN NULL ELSE nodes[n].attrs[k].value

\* -------------------------------------------------- mxmlElementGetAttrName
\* The loop calls strcmp(attr->value, value) on every slot it visits.  A
\* slot whose value is the null pointer makes that call undefined: the
\* process faults, or the bytes read compare equal, or they compare unequal
\* and the loop goes on.  The result is the set of outcomes.
RECURSIVE ScanValue(_, _, _)
ScanValue(attrs, value, i) ==
  IF i > Len(attrs) THEN {[ret |-> NULL, fault |-> FALSE]}
  ELSE IF attrs[i].value = NULL
  THEN {[ret |-> NULL, fault |-> TRUE], [ret |-> attrs[i].name, fault |-> FALSE]}
         \cup ScanValue(attrs, value, i + 1)
  ELSE IF StrEq(attrs[i].value, value)
  THEN {[ret |-> attrs[i].name, fault |-> FALSE]}
  ELSE ScanValue(attrs, value, i + 1)

mxmlElementGetAttrName(nodes, n, value) ==
  IF n = NULL \/ nodes[n].type # MXML_ELEMENT \/ value = NULL
  THEN {[ret |-> NULL, fault |-> FALSE]}
  ELSE ScanValue(SubSeq(nodes[n].attrs, 1, nodes[n].num_attrs), value, 1)

\* ----------------------------------------------------------- mxml_set_attr
\* nd is an element node, name is not null; value is the owned copy (or
\* null) the caller hands over.  Each allocation the function reaches may
\* return null, so the result is the set of outcomes: an existing name is
\* overwritten in place; a new name needs the array grown (malloc when
\* num_attrs is 0, realloc otherwise) and then the name copied.
\* realloc's result stored in the node before it is tested: a failed growth
\* leaves the node with a null array pointer.
mxml_set_attr_LosePointer(nd, name, value) ==
  LET k == FindAttr(nd, name)
      call == IF nd.num_attrs = 0 THEN "malloc" ELSE "realloc"
      grown == [nd EXCEPT !.cap = nd.num_attrs + 1]
      lost == nd.num_attrs = 0 /\ nd.cap > 0
  IN IF k > 0
     THEN {[nd |-> [nd EXCEPT !.attrs[k].value = value],
            out |-> [Nothing EXCEPT !.called = TRUE, !.rc = 0,
                       !.frees = IF nd.attrs[k].value = NULL THEN 0 ELSE 1]]}
     ELSE {[nd |-> [nd EXCEPT !.cap = 0],
            out |-> [Nothing EXCEPT !.called = TRUE, !.rc = -1, !.reports = 1,
                       !.allocs = 1, !.failed = {"attrs"}, !.arrayCall = call]],
           [nd |-> grown,
            out |-> [Nothing EXCEPT !.called = TRUE, !.rc = -1, !.reports = 1,
                       !.allocs = 2, !.failed = {"name"}, !.arrayCall = call,
                       !.abandoned = lost]],
           [nd |-> [grown EXCEPT
                      !.attrs = Append(nd.attrs, [name |-> name, value |-> value]),
                      !.num_attrs = nd.num_attrs + 1],
            out |-> [Nothing EXCEPT !.called = TRUE, !.rc = 0, !.allocs = 2,
                       !.arrayCall = call, !.abandoned = lost]]}

\* The array grown with one slot of headroom (num_attrs + 2).
mxml_set_attr_Headroom(nd, name, value) ==
  LET k == FindAttr(nd, name)
      call == IF nd.num_attrs = 0 THEN "malloc" ELSE "realloc"
      grown == [nd EXCEPT !.cap = nd.num_attrs + 2]
      lost == nd.num_attrs = 0 /\ nd.cap > 0
  IN IF k > 0
     THEN {[nd |-> [nd EXCEPT !.attrs[k].value = value],
            out |-> [Nothing EXCEPT !.called = TRUE, !.rc = 0,
                       !.frees = IF nd.attrs[k].value = NULL THEN 0 ELSE 1]]}
     ELSE {[nd |-> nd,
            out |-> [Nothing EXCEPT !.called = TRUE, !.rc = -1, !.reports = 1,
                       !.allocs = 1, !.failed = {"attrs"}, !.arrayCall = call]],
           [nd |-> grown,
            out |-> [Nothing EXCEPT !.called = TRUE, !.rc = -1, !.reports = 1,
                       !.allocs = 2, !.failed = {"name"}, !.arrayCall = call,
                       !.abandoned = lost]],
           [nd |-> [grown EXCEPT
                      !.attrs = Append(nd.attrs, [name |-> name, value |-> value]),
                      !.num_attrs = nd.num_attrs + 1],
            out |-> [Nothing EXCEPT !.called = TRUE, !.rc = 0, !.allocs = 2,
                       !.arrayCall = call, !.abandoned = lost]]}

\* num_attrs incremented before the name is copied: a failed copy leaves a
\* counted slot whose name is null.
mxml_set_attr_CountFirst(nd, name, value) ==
  LET k == FindAttr(nd, name)
      call == IF nd.num_attrs = 0 THEN "malloc" ELSE "realloc"
      grown == [nd EXCEPT !.cap = nd.num_attrs + 1]
      lost == nd.num_attrs = 0 /\ nd.cap > 0
  IN IF k > 0
     THEN {[nd |-> [nd EXCEPT !.attrs[k].value = value],
            out |-> [Nothing EXCEPT !.called = TRUE, !.rc = 0,
                       !.frees = IF nd.attrs[k].value = NULL THEN 0 ELSE 1]]}
     ELSE {[nd |-> nd,
            out |-> [Nothing EXCEPT !.called = TRUE, !.rc = -1, !.reports = 1,
                       !.allocs = 1, !.failed = {"attrs"}, !.arrayCall = call]],
           [nd |-> [grown EXCEPT
                      !.attrs = Append(nd.attrs, [name |-> NULL, value |-> NULL]),
                      !.num_attrs = nd.num_attrs + 1],
            out |-> [Nothing EXCEPT !.called = TRUE, !.rc = -1, !.reports = 1,
                       !.allocs = 2, !.failed = {"name"}, !.arrayCall = call,
                       !.abandoned = lost]],
           [nd |-> [grown EXCEPT
                      !.attrs = Append(nd.attrs, [name |-> name, value |-> value]),
                      !.num_attrs = nd.num_attrs + 1],
            out |-> [Nothing EXCEPT !.called = TRUE, !.rc = 0, !.allocs = 2,
                       !.arrayCall = call, !.abandoned = lost]]}

mxml_set_attr(nd, name, value) ==
  LET k == FindAttr(nd, name)
      call == IF nd.num_attrs = 0 THEN "malloc" ELSE "realloc"
      grown == [nd EXCEPT !.cap = nd.num_attrs + 1]
      lost == nd.num_attrs = 0 /\ nd.cap > 0
  IN IF k > 0
     THEN {[nd |-> [nd EXCEPT !.attrs[k].value = value],
            out |-> [Nothing EXCEPT !.called = TRUE, !.rc = 0,
                       !.frees = IF nd.attrs[k].value = NULL THEN 0 ELSE 1]]}
     ELSE {[nd |-> nd,
            out |-> [Nothing EXCEPT !.called = TRUE, !.rc = -1, !.reports = 1,
                       !.allocs = 1, !.failed = {"attrs"}, !.arrayCall = call]],
           [nd |-> grown,
            out |-> [Nothing EXCEPT !.called = TRUE, !.rc = -1, !.reports = 1,
                       !.allocs = 2, !.failed = {"name"}, !.arrayCall = call,
                       !.abandoned = lost]],
           [nd |-> [grown EXCEPT
                      !.attrs = Append(nd.attrs, [name |-> name, value |-> value]),
                      !.num_attrs = nd.num_attrs + 1],
            out |-> [Nothing EXCEPT !.called = TRUE, !.rc = 0, !.allocs = 2,
                       !.arrayCall = call, !.abandoned = lost]]}

\* ------------------------------------------------------ mxmlElementSetAttr
\* strdup(s): the copy, or null when the allocation fails.
Strdup(s) == {s, NULL}

\* What the caller does around mxml_set_attr: it made the copy valuec of
\* value (one allocation, failed when valuec is null) and releases it when
\* mxml_set_attr returns non-zero.
AfterSet(nodes, n, r, value, valuec, site) ==
  [nodes |-> [nodes EXCEPT ![n] = r.nd],
   out |-> [r.out EXCEPT
              !.allocs = r.out.allocs + (IF value # NULL THEN 1 ELSE 0),
              !.failed = r.out.failed \cup
                           (IF value # NULL /\ valuec = NULL THEN {site} ELSE {}),
              !.frees = r.out.frees +
                          (IF r.out.rc # 0 /\ valuec # NULL THEN 1 ELSE 0)]]

\* The range check without the node type test.
mxmlElementSetAttr_AnyType(nodes, n, name, value) ==
  IF n = NULL \/ name = NULL
  THEN {[nodes |-> nodes, out |-> Nothing]}
  ELSE UNION {{AfterSet(nodes, n, r, value, valuec, "value") :
                 r \in mxml_set_attr(nodes[n], name, valuec)} :
              valuec \in (IF value # NULL THEN Strdup(value) ELSE {NULL})}

\* The range check without the test of name.
mxmlElementSetAttr_AnyName(nodes, n, name, value) ==
  IF n = NULL \/ nodes[n].type # MXML_ELEMENT
  THEN {[nodes |-> nodes, out |-> Nothing]}
  ELSE UNION {{AfterSet(nodes, n, r, value, valuec, "value") :
                 r \in mxml_set_attr(nodes[n], name, valuec)} :
              valuec \in (IF value # NULL THEN Strdup(value) ELSE {NULL})}

mxmlElementSetAttr(nodes, n, name, value) ==
  IF n = NULL \/ nodes[n].type # MXML_ELEMENT \/ name = NULL
  THEN {[nodes |-> nodes, out |-> Nothing]}
  ELSE UNION {{AfterSet(nodes, n, r, value, valuec, "value") :
                 r \in mxml_set_attr(nodes[n], name, valuec)} :
              valuec \in (IF value # NULL THEN Strdup(value) ELSE {NULL})}

\* ----------------------------------------------------- mxmlElementSetAttrf
\* The formats a caller passes: "%s" with a string argument, "%d" with an
\* integer argument, or no format at all.
Digits == <<"0", "1", "2", "3", "4", "5", "6", "7", "8", "9">>

FormatCalls ==
  {[format |-> "%s", sarg |-> v, iarg |-> 0] : v \in Values}
    \cup {[format |-> "%d", sarg |-> NULL, iarg |-> 1],
          [format |-> NULL, sarg |-> NULL, iarg |-> 0]}

\* The string the format and its argument compose to.
Composed(f) ==
  IF f.format = "%s" THEN f.sarg
  ELSE IF f.format = "%d" THEN Digits[f.iarg + 1]
  ELSE NULL

\* A newly allocated string holding the composition, or null when the
\* allocation fails.
_mxml_vstrdupf(f) == {Composed(f), NULL}

\* The else left out: after the report the null value is still handed to
\* mxml_set_attr.
mxmlElementSetAttrf_NoElse(nodes, n, name, f) ==
  IF n = NULL \/ nodes[n].type # MXML_ELEMENT \/ name = NULL \/ f.format = NULL
  THEN {[nodes |-> nodes, out |-> Nothing]}
  ELSE UNION {IF value = NULL
              THEN {[nodes |-> [nodes EXCEPT ![n] = r.nd],
                     out |-> [r.out EXCEPT !.reports = r.out.reports + 1,
                                           !.allocs = r.out.allocs + 1,
                                           !.failed = r.out.failed \cup {"format"}]] :
                      r \in mxml_set_attr(nodes[n], name, NULL)}
              ELSE {AfterSet(nodes, n, r, value, value, "format") :
                      r \in mxml_set_attr(nodes[n], name, value)} :
              value \in _mxml_vstrdupf(f)}

mxmlElementSetAttrf(nodes, n, name, f) ==
  IF n = NULL \/ nodes[n].type # MXML_ELEMENT \/ name = NULL \/ f.format = NULL
  THEN {[nodes |-> nodes, out |-> Nothing]}
  ELSE UNION {IF value = NULL
              THEN {[nodes |-> nodes,
                     out |-> [Nothing EXCEPT !.reports = 1, !.allocs = 1,
                                             !.failed = {"format"}]]}
              ELSE {AfterSet(nodes, n, r, value, value, "format") :
                      r \in mxml_set_attr(nodes[n], name, value)} :
              value \in _mxml_vstrdupf(f)}

\* ---------------------------------------------------- the owned strings
\* heap follows the pointers the calls store and release.  A string block
\* is a positive number, 0 is the null pointer.  heap.slots[n] holds, for
\* each live slot of node n, the blocks its name and value point to;
\* heap.live is the set of string blocks allocated and not released;
\* heap.twice tells whether free was ever handed a block that is not live.
\* As in node, the bytes of slots at or beyond num_attrs are left out.
\*
\* Which number names a block carries no meaning, and an allocation may
\* return any block that is not live (a released one included).  To keep
\* each heap in one form only, the copy of the name N is given the block
\* NameBlock(N) and the value stored under N the block ValueBlock(N)
\* whenever that block is not live; when it is, the allocation returns a
\* block beyond all of those.

NameBlock(name) ==
  2 * (CHOOSE i \in 1..Len(NamePool) : NamePool[i] = name) - 1

ValueBlock(name) ==
  2 * (CHOOSE i \in 1..Len(NamePool) : NamePool[i] = name)

\* The block a successful allocation returns: want when it is not live,
\* else another block that is not live.
Fresh(h, want) ==
  LET base == 2 * Len(NamePool)
  IN IF want \notin h.live THEN want
     ELSE CHOOSE i \in (base + 1)..(base + Cardinality(h.live) + 1) :
            i \notin h.live

\* free(p)
Free(h, p) ==
  IF p = 0 THEN h
  ELSE IF p \in h.live THEN [h EXCEPT !.live = h.live \ {p}]
  ELSE [h EXCEPT !.twice = TRUE]

\* mxmlElementDeleteAttr on the blocks: both strings of slot k are released
\* and the slots after k are moved one down.
mxmlElementDeleteAttr_heap(h, nodes, n, name) ==
  IF n = NULL \/ nodes[n].type # MXML_ELEMENT \/ name = NULL THEN h
  ELSE LET k == FindAttr(nodes[n], name)
           sl == h.slots[n]
       IN IF k = 0 THEN h
          ELSE [Free(Free(h, sl[k].name), sl[k].value) EXCEPT
                  !.slots[n] = Memmove(sl, k)]

\* mxml_set_attr on the blocks, for the outcome out: valuep is the block of
\* the value handed over.
mxml_set_attr_heap(h, nd, n, name, valuep, out) ==
  LET k == FindAttr(nd, name)
      sl == h.slots[n]
      namep == Fresh(h, NameBlock(name))
  IN IF k > 0
     THEN [(IF sl[k].value # 0 THEN Free(h, sl[k].value) ELSE h) EXCEPT
             !.slots[n][k].value = valuep]
     ELSE IF out.failed \cap {"attrs", "name"} # {} THEN h
     ELSE [h EXCEPT !.live = h.live \cup {namep},
                    !.slots[n] = Append(sl, [name |-> namep, value |-> valuep])]

\* The block p, which only the value of slot k of node n holds, renamed to
\* want when want has become free.
Renamed(h, n, k, p, want) ==
  IF k = 0 \/ p = 0 \/ p = want \/ want \in h.live
       \/ h.slots[n][k].value # p
  THEN h
  ELSE [h EXCEPT !.live = (h.live \ {p}) \cup {want},
                 !.slots[n][k].value = want]

\* The caller's release of the value with the test inverted: the copy is
\* released when mxml_set_attr returned 0.
SetValue_heap_Inverted(h, nodes, n, name, value, out, site) ==
  IF ~out.called THEN h
  ELSE LET made == value # NULL /\ site \notin out.failed
           valuep == IF made THEN Fresh(h, ValueBlock(name)) ELSE 0
           h1 == IF made THEN [h EXCEPT !.live = h.live \cup {valuep}] ELSE h
           h2 == mxml_set_attr_heap(h1, nodes[n], n, name, valuep, out)
       IN IF out.rc = 0 THEN Free(h2, valuep) ELSE h2

\* mxmlElementSetAttr and mxmlElementSetAttrf on the blocks, for the outcome
\* out: the value is copied (site "value") or composed (site "format") into
\* a new block unless that allocation failed, handed to mxml_set_attr, and
\* released when mxml_set_attr returns non-zero.
SetValue_heap(h, nodes, n, name, value, out, site) ==
  IF ~out.called THEN h
  ELSE LET made == value # NULL /\ site \notin out.failed
           valuep == IF made THEN Fresh(h, ValueBlock(name)) ELSE 0
           h1 == IF made THEN [h EXCEPT !.live = h.live \cup {valuep}] ELSE h
           h2 == mxml_set_attr_heap(h1, nodes[n], n, name, valuep, out)
       IN IF out.rc # 0 THEN Free(h2, valuep)
          ELSE Renamed(h2, n, FindAttr(nodes[n], name), valuep, ValueBlock(name))

\* ------------------------------------------------------------ the machine
Init ==
  /\ node = [n \in Nodes |-> NewNode(IF n = "elem" THEN MXML_ELEMENT ELSE MXML_TEXT)]
  /\ pre = node
  /\ last = [op |-> "none", n |-> NULL, name |-> NULL, value |-> NULL,
             out |-> Nothing]
  /\ heap = [slots |-> [n \in Nodes |-> <<>>], live |-> {}, twice |-> FALSE]

\* One call: pre keeps the nodes as they were when the call began, last the
\* call, its arguments and what it did.  A process that has faulted makes
\* no further call.
Step(op, n, name, value, nodes, out, h) ==
  /\ ~last.out.fault
  /\ node' = nodes
  /\ pre' = node
  /\ last' = [op |-> op, n |-> n, name |-> name, value |-> value, out |-> out]
  /\ heap' = h

DeleteAttr ==
  \E n \in NodeArgs, name \in NameArgs :
    LET r == mxmlElementDeleteAttr(node, n, name)
    IN Step("DeleteAttr", n, name, NULL, r.nodes, r.out,
            mxmlElementDeleteAttr_heap(heap, node, n, name))

GetAttrValue ==
  \E n \in NodeArgs, name \in NameArgs :
    Step("GetAttrValue", n, name, NULL, node,
         [Nothing EXCEPT !.ret = mxmlElementGetAttrValue(node, n, name)], heap)

GetAttrName ==
  \E n \in NodeArgs, value \in ValueArgs :
    \E o \in mxmlElementGetAttrName(node, n, value) :
      Step("GetAttrName", n, NULL, value, node,
           [Nothing EXCEPT !.ret = o.ret, !.fault = o.fault], heap)

SetAttr ==
  \E n \in NodeArgs, name \in NameArgs, value \in ValueArgs :
    \E r \in mxmlElementSetAttr(node, n, name, value) :
      Step("SetAttr", n, name, value, r.nodes, r.out,
           SetValue_heap(heap, node, n, name, value, r.out, "value"))

SetAttrf ==
  \E n \in NodeArgs, name \in NameArgs, f \in FormatCalls :
    \E r \in mxmlElementSetAttrf(node, n, name, f) :
      Step("SetAttrf", n, name, Composed(f), r.nodes, r.out,
           SetValue_heap(heap, node, n, name, Composed(f), r.out, "format"))

Next == DeleteAttr \/ GetAttrValue \/ GetAttrName \/ SetAttr \/ SetAttrf

Spec == Init /\ [][Next]_vars


\* ------------------------------------------------------------- properties
\* The node the last call was given is an element node.
OnElem == last.n # NULL /\ pre[last.n].type = MXML_ELEMENT

\* The node the last call was given, before and after the call.
Old == pre[last.n]
Cur == node[last.n]

SetOps == {"SetAttr", "SetAttrf"}

\* mxml_set_attr ran and returned 0.
Succeeded == last.out.called /\ last.out.rc = 0

\* C1: if SetValue(E,N,V) succeeds, then GetValue(E,N) right after it
\* returns V, for every element, non-absent name and value, present or
\* absent, after any earlier calls.
C1_SetThenGet ==
  (last.op = "SetAttr" /\ OnElem /\ last.name # NULL /\ Succeeded)
    => mxmlElementGetAttrValue(node, last.n, last.name) = last.value

\* C2: in every reachable state, also after calls in which an allocation
\* failed, no two records of one element have the same name.
C2_UniqueNames ==
  \A n \in Nodes :
    /\ Len(node[n].attrs) = node[n].num_attrs
    /\ \A i, j \in 1..node[n].num_attrs :
         i # j => node[n].attrs[i].name # node[n].attrs[j].name

\* C2 witness: a set call on an element of two records named a name the
\* element already held.
C2_Witness ==
  /\ last.op \in SetOps /\ OnElem /\ last.name # NULL
  /\ Old.num_attrs = 2
  /\ FindAttr(Old, last.name) = 2
  /\ Succeeded

\* C3: SetValue(E,N,V2) on an element that holds a record named N leaves
\* exactly one record named N, now with value V2, and leaves the count, the
\* position of N and every other record unchanged.
C3_Overwrite ==
  (last.op = "SetAttr" /\ OnElem /\ last.name # NULL
     /\ FindAttr(Old, last.name) > 0)
    => /\ Cur.num_attrs = Old.num_attrs
       /\ Cardinality({i \in 1..Cur.num_attrs :
                         Cur.attrs[i].name = last.name}) = 1
       /\ FindAttr(Cur, last.name) = FindAttr(Old, last.name)
       /\ Cur.attrs[FindAttr(Cur, last.name)].value = last.value
       /\ \A i \in 1..Old.num_attrs :
            i # FindAttr(Old, last.name) => Cur.attrs[i] = Old.attrs[i]

\* C4: a successful SetValue(E,N,V) with a name the element does not hold
\* raises the count by exactly 1 and puts the record (N,V) last, after all
\* earlier records, which keep their names, values and order.
C4_Append ==
  (last.op = "SetAttr" /\ OnElem /\ last.name # NULL
     /\ FindAttr(Old, last.name) = 0 /\ Succeeded)
    => /\ Cur.num_attrs = Old.num_attrs + 1
       /\ Cur.attrs = Append(Old.attrs,
                             [name |-> last.name, value |-> last.value])

\* C5: DeleteByName(E,N) on an element that holds a record named N lowers
\* the count by exactly 1 and removes that record only: records before its
\* slot keep their index, records after it move one slot earlier, each with
\* its own name and value.
C5_DeleteExisting ==
  (last.op = "DeleteAttr" /\ OnElem /\ last.name # NULL
     /\ FindAttr(Old, last.name) > 0)
    => LET k == FindAttr(Old, last.name)
       IN /\ Cur.num_attrs = Old.num_attrs - 1
          /\ Len(Cur.attrs) = Cur.num_attrs
          /\ \A j \in 1..(k - 1) : Cur.attrs[j] = Old.attrs[j]
          /\ \A j \in k..Cur.num_attrs : Cur.attrs[j] = Old.attrs[j + 1]
          /\ FindAttr(Cur, last.name) = 0

\* C5 witness: the first of two records was deleted, so the second moved.
C5_Witness ==
  /\ last.op = "DeleteAttr" /\ OnElem /\ last.name # NULL
  /\ Old.num_attrs = 2
  /\ FindAttr(Old, last.name) = 1
  /\ Cur.num_attrs = 1

\* C6: DeleteByName(E,N) when no record of E is named N changes nothing
\* (count, records, names, values) and makes no report.
C6_DeleteMissing ==
  (last.op = "DeleteAttr" /\ OnElem /\ last.name # NULL
     /\ FindAttr(Old, last.name) = 0)
    => /\ node = pre
       /\ last.out.reports = 0
       /\ last.out.frees = 0

\* C6 witness: a delete of a name the element, which holds a record, does
\* not hold.
C6_Witness ==
  /\ last.op = "DeleteAttr" /\ OnElem /\ last.name # NULL
  /\ Old.num_attrs >= 1
  /\ FindAttr(Old, last.name) = 0

\* The name of the first record, in storage order, whose value is the
\* string v; NULL when there is none.  Records without a value match no v.
FirstByValue(nd, v) ==
  LET hits == {i \in 1..nd.num_attrs :
                 nd.attrs[i].value # NULL /\ nd.attrs[i].value = v}
  IN IF hits = {} THEN NULL
     ELSE nd.attrs[CHOOSE i \in hits : \A j \in hits : i <= j].name

\* C7: GetNameByValue(E,V) for a non-absent V returns the name of the first
\* record whose value equals V, or absent; records with an absent value
\* never match, the scan passes them without fault and goes on to the later
\* records.
C7_FirstByValue ==
  (last.op = "GetAttrName" /\ OnElem /\ last.value # NULL)
    => /\ ~last.out.fault
       /\ last.out.ret = FirstByValue(Old, last.value)

\* C8: every operation called on an absent node or on a node that is no
\* element returns the neutral result, allocates nothing, reports nothing
\* and leaves the node as it was, whatever the other arguments are.
C8_NotAnElement ==
  (last.op # "none" /\ ~OnElem)
    => /\ node = pre
       /\ last.out = Nothing

\* C8 witness: a set with a name and a value on the text node, after the
\* element had gained a record.
C8_Witness ==
  /\ last.op \in SetOps /\ last.n = "text"
  /\ last.name # NULL /\ last.value # NULL
  /\ node["elem"].num_attrs >= 1

C10_FailedSetKeepsState ==
  (last.op = "SetAttr" /\ OnElem /\ last.out.failed # {})
    => /\ Cur.num_attrs = Old.num_attrs
       /\ \A m \in Names :
            mxmlElementGetAttrValue(node, last.n, m)
              = mxmlElementGetAttrValue(pre, last.n, m)


\* A set call that passed its range check.
SetCall ==
  /\ last.op \in SetOps /\ OnElem /\ last.name # NULL
  /\ last.op = "SetAttrf" => last.value # NULL

\* A set call that added a record for a new name.
Added == SetCall /\ Succeeded /\ Cur.num_attrs = Old.num_attrs + 1

\* C11: every allocation failure inside SetValue or SetFormatted (value
\* copy, array growth, name copy) has the Error Reporter invoked exactly
\* once for that call; no allocation failure is silent.
C11_EveryFailureReported ==
  (SetCall /\ last.out.failed # {}) => last.out.reports = 1

\* C12: when the composition of SetFormatted fails, the Error Reporter is
\* invoked exactly once and records and count are unchanged; when it
\* succeeds, the store ends in exactly the state SetValue with the composed
\* value produces from the same starting state.
C12_FormattedAsSet ==
  (last.op = "SetAttrf" /\ OnElem /\ last.name # NULL /\ last.value # NULL)
    => IF "format" \in last.out.failed
       THEN last.out.reports = 1 /\ node = pre /\ ~last.out.called
       ELSE /\ \E r \in mxmlElementSetAttr(pre, last.n, last.name, last.value) :
                 r.out = last.out /\ r.nodes = node
            /\ \A r \in mxmlElementSetAttr(pre, last.n, last.name, last.value) :
                 r.out.failed = last.out.failed => r.nodes = node

\* C12 witness: a formatted set that added a second record.
C12_Witness ==
  /\ last.op = "SetAttrf" /\ Added
  /\ Cur.num_attrs = 2

\* C13: GetValue(E,N) returns the value of the first record named N, and
\* absent both when no record is named N and when that record has no value;
\* it never changes the store.
C13_GetValue ==
  (last.op = "GetAttrValue" /\ OnElem /\ last.name # NULL)
    => LET hits == {i \in 1..Old.num_attrs : Old.attrs[i].name = last.name}
           first == CHOOSE i \in hits : \A j \in hits : i <= j
       IN /\ node = pre
          /\ hits = {} => last.out.ret = NULL
          /\ hits # {} => last.out.ret = Old.attrs[first].value
          /\ (hits # {} /\ Old.attrs[first].value = NULL)
               => last.out.ret =
                    mxmlElementGetAttrValue(
                      mxmlElementDeleteAttr(pre, last.n, last.name).nodes,
                      last.n, last.name)

\* C13 witness: a get of a name whose record has no value, on an element of
\* two records.
C13_Witness ==
  /\ last.op = "GetAttrValue" /\ OnElem /\ last.name # NULL
  /\ Old.num_attrs = 2
  /\ FindAttr(Old, last.name) > 0
  /\ Old.attrs[FindAttr(Old, last.name)].value = NULL
  /\ last.out.ret = NULL

\* C14: when a new name is added and the growth of the array fails, the
\* node's array and count are exactly as before, every record reads as
\* before, the Error Reporter is invoked once and the set returns failure.
C14_GrowthFailure ==
  (SetCall /\ "attrs" \in last.out.failed)
    => /\ node = pre
       /\ last.out.reports = 1
       /\ last.out.called /\ last.out.rc = -1
       /\ \A m \in Names :
            mxmlElementGetAttrValue(node, last.n, m)
              = mxmlElementGetAttrValue(pre, last.n, m)

\* C14 witness: a failed realloc on an element that holds a record.
C14_Witness ==
  /\ SetCall /\ "attrs" \in last.out.failed
  /\ Old.num_attrs >= 1
  /\ last.out.arrayCall = "realloc"

\* C15: when growth succeeds and the name copy fails, the count is not
\* incremented and the array keeps one unused slot; whatever the count was
\* (0 included), the next successful addition reuses that array through
\* realloc and does not allocate a separate array and abandon the grown one.
C15_ReuseAfterNameFailure ==
  [][/\ (SetCall' /\ "name" \in last'.out.failed)
          => /\ node'[last'.n].num_attrs = node[last'.n].num_attrs
             /\ node'[last'.n].cap = node'[last'.n].num_attrs + 1
     /\ (SetCall /\ "name" \in last.out.failed /\ Added' /\ last'.n = last.n)
          => /\ last'.out.arrayCall = "realloc"
             /\ ~last'.out.abandoned]_vars

\* C16: after every successful addition of a new name the capacity of the
\* array equals the count exactly, and the addition made exactly one array
\* allocation or reallocation.
C16_ExactFit ==
  Added
    => /\ Cur.cap = Cur.num_attrs
       /\ last.out.arrayCall \in {"malloc", "realloc"}
       /\ last.out.allocs = 2 + (IF last.value # NULL THEN 1 ELSE 0)

\* C16 witness: an addition to an element whose array had more slots than
\* the addition needs, left by earlier deletions.
C16_Witness ==
  /\ Added
  /\ Old.cap > Old.num_attrs + 1

\* C17: in every reachable state the live records are as many as the count
\* says, the count does not exceed the capacity of the array, and every
\* slot below the count is an initialized record with a non-absent name.
C17_CountWithinArray ==
  \A n \in Nodes :
    /\ node[n].num_attrs >= 0
    /\ node[n].num_attrs <= node[n].cap
    /\ DOMAIN node[n].attrs = 1..node[n].num_attrs
    /\ \A i \in 1..node[n].num_attrs :
         /\ DOMAIN node[n].attrs[i] = {"name", "value"}
         /\ node[n].attrs[i].name \in Names
         /\ node[n].attrs[i].value \in ValueArgs

\* C17 witness: a failed name copy on an element that holds a record: the
\* array has a slot beyond the count.
C17_Witness ==
  /\ SetCall /\ "name" \in last.out.failed
  /\ Old.num_attrs >= 1
  /\ Cur.cap = Cur.num_attrs + 1

\* C18: the set result tells whether a mutation occurred: failure exactly
\* when an allocation or formatting failure was reported and the records
\* are unchanged, success exactly when afterwards the record named N exists
\* with the requested value.
C18_ResultTellsMutation ==
  SetCall
    => /\ ~Succeeded <=> (last.out.reports >= 1 /\ Cur.attrs = Old.attrs
                            /\ Cur.num_attrs = Old.num_attrs)
       /\ Succeeded <=> (/\ FindAttr(Cur, last.name) > 0
                         /\ Cur.attrs[FindAttr(Cur, last.name)].value = last.value)

\* C19: no record array is ever leaked: no call overwrites the node's only
\* reference to an array without releasing or reallocating it, also not the
\* addition that follows the deletion of all attributes.
C19_NoArrayLeak == ~last.out.abandoned


\* The string blocks the live slots of node n hold, as a sequence: name and
\* value of slot 1, of slot 2, ...; null values left out.
RECURSIVE LiveRefs(_, _)
LiveRefs(n, i) ==
  IF i > node[n].num_attrs THEN <<>>
  ELSE <<heap.slots[n][i].name>>
         \o (IF heap.slots[n][i].value = 0 THEN <<>>
             ELSE <<heap.slots[n][i].value>>)
         \o LiveRefs(n, i + 1)

AllLiveRefs == LiveRefs("elem", 1) \o LiveRefs("text", 1)

\* C20: every owned string has exactly one owner at all times: at the end
\* of every call each allocated string is held by exactly one live record
\* or has been released once; no string is released twice, no live record
\* holds a released string, and after a deletion's shift no two live
\* records hold the same string.
C20_SingleOwner ==
  /\ ~heap.twice
  /\ \A n \in Nodes :
       /\ Len(heap.slots[n]) = node[n].num_attrs
       /\ \A i \in 1..node[n].num_attrs :
            /\ heap.slots[n][i].name \in heap.live
            /\ (node[n].attrs[i].value = NULL) <=> (heap.slots[n][i].value = 0)
            /\ heap.slots[n][i].value # 0 => heap.slots[n][i].value \in heap.live
  /\ \A i, j \in 1..Len(AllLiveRefs) : i # j => AllLiveRefs[i] # AllLiveRefs[j]
  /\ heap.live = {AllLiveRefs[i] : i \in 1..Len(AllLiveRefs)}

\* C20 witness: the first of two records, both with values, was deleted
\* (two strings released) and the second shifted into its slot.
C20_Witness ==
  /\ last.op = "DeleteAttr" /\ OnElem
  /\ Old.num_attrs = 2 /\ Cur.num_attrs = 1
  /\ FindAttr(Old, last.name) = 1
  /\ heap.slots[last.n][1].value # 0
  /\ Cardinality(heap.live) = 2
  /\ last.out.frees = 2

=============================================================================
